---- MODULE Spec2Model ----
(***************************************************************************)
(* Invoice computation, status handling and invoice numbering of the       *)
(* billing back end (routes: POST /invoices, PUT /invoices/:id,            *)
(* PUT /invoices/:id/status, DELETE /invoices/:id; model: invoiceSchema    *)
(* with its pre('save') hook).                                             *)
(*                                                                         *)
(* Money is an integer number of paise (1/100 rupee), so the source's      *)
(* Math.round(x * 100) / 100 is rounding to a whole paisa, half up.        *)
(* Quantities and tax rates are whole numbers, except under SpecAmounts,    *)
(* where a quantity is a number of steps of 1/QuantityUnit.  Binary        *)
(* floating point representation error is outside the model.               *)
(*                                                                         *)
(* Spec     one stored invoice document and the requests on it, each       *)
(*          handler one atomic action (the handlers are sequential per     *)
(*          request; a document is touched by one findOne/save or one      *)
(*          findOneAndUpdate).                                             *)
(*          The invoice number of the created document plays no part in    *)
(*          these computations; the numbering steps of POST /invoices are  *)
(*          the subject of the two specifications below.                   *)
(* SpecNum  the invoice-number loop of POST /invoices for concurrent       *)
(*          requests, one step per await (the lookup, the save).           *)
(* SpecLoop the same loop for one request, against a store that other      *)
(*          requests change between its steps.                             *)
(* SpecAmounts   the amounts POST /invoices stores for request values of   *)
(*          every kind (absent, null, text, zero, infinite, fractional).   *)
(* SpecSnapshot  owner, customer snapshot, invoiceType and tags of the     *)
(*          stored invoice under the requests of two tenants, with         *)
(*          GET /invoices/:id and PUT /customers/:id.                      *)
(* SpecCounter   concurrent calls of Counter.getNextSequence, one step     *)
(*          per call and one per findByIdAndUpdate.                        *)
(* SpecSettings  getNextItemCode and getNextPartNumber on documents that   *)
(*          concurrent requests loaded, changed and saved.                 *)
(* SpecAuth      POST /login, forced logout, status and lock changes of    *)
(*          one business owner, and requireAuth on the issued tokens.      *)
(* SpecBank      the bank-account routes of the business settings with     *)
(*          the pre('save') hook of the settings document.                 *)
(* SpecStockSequential  the stock add and remove routes, one request at    *)
(*          a time.                                                        *)
(* SpecStock     the same routes for concurrent requests, one step per     *)
(*          await (findOne, save).                                         *)
(***************************************************************************)
EXTENDS Integers, Sequences, FiniteSets, TLC

VARIABLES invoice, last, numbers, req, customer,
          counters, calls, settings, loads, owner, tokens, bank, clock,
          stock, moves

\* The variables by subject.
invoiceVars == <<invoice, numbers, req, customer>>
seqVars == <<counters, calls>>
settingsVars == <<settings, loads>>
authVars == <<owner, tokens>>
bankVars == <<bank, clock>>
stockVars == <<stock, moves>>

\* What the invoice routes leave alone.
others == <<seqVars, settingsVars, authVars, bankVars, stockVars>>

\* What the calls of getNextSequence leave alone.
exceptSeq == <<invoiceVars, last, settingsVars, authVars, bankVars, stockVars>>

\* What the item-code and part-number requests leave alone.
exceptSettings == <<invoiceVars, last, seqVars, authVars, bankVars, stockVars>>

\* What login, forced logout and requireAuth leave alone.
exceptAuth == <<invoiceVars, seqVars, settingsVars, bankVars, stockVars>>

\* What the bank-detail routes leave alone.
exceptBank == <<invoiceVars, seqVars, settingsVars, authVars, stockVars>>

\* What the stock routes leave alone.
exceptStock == <<invoiceVars, last, seqVars, settingsVars, authVars, bankVars>>

vars == <<invoice, last, numbers, req, customer, others>>

(***************************************************************************)
(* Bounds of the model.                                                    *)
(***************************************************************************)
MaxLines == 2

\* The concurrent calls of getNextSequence.
NumCalls == 3

\* The concurrent requests that take an item code or a part number.
NumLoads == 3

\* The tokens one business owner is issued.
MaxTokens == 2

\* The bank accounts a tenant keeps, and the milliseconds of the clock that
\* gives a new account its id.
MaxAccounts == 3

\* The stock requests on one product, and the steps a whole unit of stock is
\* divided into.
NumMoves == 3
StockUnit == 2
MaxClock == 2
NumCandidates == 2
NumRequests == 2
MaxStored == 2
\* The steps a whole quantity is divided into (tenths of a piece, of a kilo).
QuantityUnit == 10

(***************************************************************************)
(* Constants of the program.                                               *)
(***************************************************************************)
maxAttempts == 100
DefaultTaxRate == 18
DefaultQuantity == 1

(***************************************************************************)
(* JavaScript request values: a body field is absent (undefined), null,    *)
(* the empty string, non-numeric text, a finite number (or numeric text)   *)
(* of value v, or a number too large for a double (1e999, "Infinity").     *)
(***************************************************************************)
Undefined == [t |-> "undefined", v |-> 0]
Null == [t |-> "null", v |-> 0]
EmptyStr == [t |-> "string", v |-> 0]
Text == [t |-> "text", v |-> 0]
Num(n) == [t |-> "number", v |-> n]
Infinite == [t |-> "infinite", v |-> 1]

\* JavaScript truthiness: undefined, null, "" and 0 are falsy.
Truthy(x) == x.t \in {"text", "infinite"} \/ (x.t = "number" /\ x.v # 0)

\* a || b
JsOr(a, b) == IF Truthy(a) THEN a ELSE b

\* Number(x) || d for the finite values an update body carries: Number of
\* undefined and of non-numeric text is NaN, of null and "" it is 0, all falsy.
NumberOr(x, d) == IF x.t = "number" /\ x.v # 0 THEN x.v ELSE d

(***************************************************************************)
(* JavaScript numbers as the create handler computes with them: a finite   *)
(* value v, an infinity of sign v, or NaN.                                 *)
(***************************************************************************)
Fin(n) == [k |-> "fin", v |-> n]
Inf == [k |-> "inf", v |-> 1]
NaN == [k |-> "nan", v |-> 0]

isNaN(a) == a.k = "nan"
isFinite(a) == a.k = "fin"

Numbers == [k : {"fin", "inf", "nan"}, v : Int]

Sign(a) == IF a.v > 0 THEN 1 ELSE IF a.v < 0 THEN 0 - 1 ELSE 0

\* a * b : 0 times an infinity is NaN.
Times[a \in Numbers, b \in Numbers] ==
    IF isNaN(a) \/ isNaN(b) THEN NaN
    ELSE IF isFinite(a) /\ isFinite(b) THEN Fin(a.v * b.v)
    ELSE IF Sign(a) * Sign(b) = 0 THEN NaN
    ELSE [k |-> "inf", v |-> Sign(a) * Sign(b)]

\* a + b : opposite infinities add to NaN.
Plus[a \in Numbers, b \in Numbers] ==
    IF isNaN(a) \/ isNaN(b) THEN NaN
    ELSE IF isFinite(a) /\ isFinite(b) THEN Fin(a.v + b.v)
    ELSE IF isFinite(a) THEN b
    ELSE IF isFinite(b) THEN a
    ELSE IF a.v = b.v THEN a ELSE NaN

Minus[a \in Numbers, b \in Numbers] ==
    Plus[a, IF isNaN(b) THEN b ELSE [b EXCEPT !.v = 0 - b.v]]

\* a <= n and a >= n for an integer n; every comparison with NaN is false.
AtMost(a, n) == ~isNaN(a) /\ (IF isFinite(a) THEN a.v <= n ELSE a.v < 0)
AtLeast(a, n) == ~isNaN(a) /\ (IF isFinite(a) THEN a.v >= n ELSE a.v > 0)

\* Number(value)
ToNumber(value) ==
    CASE value.t = "number" -> Fin(value.v)
      [] value.t = "infinite" -> Inf
      [] value.t \in {"null", "string"} -> Fin(0)
      [] OTHER -> NaN

\* n / d rounded to a whole number, half up: Math.round.
RoundDiv(n, d) == (2 * n + d) \div (2 * d)

\* Math.round(x * 100) / 100 of a number held in 1/d paise: whole paise.
Round2[a \in Numbers, d \in Nat] == IF isFinite(a) THEN Fin(RoundDiv(a.v, d)) ELSE a

\* F of the value of v.
With(v, F(_)) == CHOOSE r \in {F(x) : x \in {v}} : TRUE

\* Math.round(n / 100) for n in hundredths of a unit: half rounds up.
Round100(n) == (n + 50) \div 100

\* Math.round((total / 2) * 100) / 100 in paise: half a paisa rounds up.
RoundHalf(total) == (total + 1) \div 2

\* A conversion in the style of Number(value) || defaultValue: 0 is replaced.
safeNumberFalsy(value, defaultValue) ==
    IF value.t \in {"null", "undefined", "string"}
    THEN Fin(defaultValue)
    ELSE IF isNaN(ToNumber(value)) \/ ToNumber(value) = Fin(0)
         THEN Fin(defaultValue)
         ELSE ToNumber(value)

safeNumber(value, defaultValue) ==
    IF value.t \in {"null", "undefined", "string"}
    THEN Fin(defaultValue)
    ELSE IF isNaN(ToNumber(value)) THEN Fin(defaultValue) ELSE ToNumber(value)

\* reduce((sum, item) => sum + item[f], 0) over numbers that may be infinite.
RECURSIVE SumTo(_, _, _)
SumTo(items, f, n) ==
    IF n = 0 THEN Fin(0) ELSE Plus[SumTo(items, f, n - 1), items[n][f]]

SumOf(items, f) == SumTo(items, f, Len(items))

RECURSIVE SumField(_, _)
SumField(items, f) ==
    IF items = <<>> THEN 0
    ELSE Head(items)[f] + SumField(Tail(items), f)

(***************************************************************************)
(* Request inputs.                                                         *)
(***************************************************************************)
\* The line items a request may carry: a line without a tax rate of its own
\* (under the default rate its tax is an odd number of paise, under 5% it is
\* rounded) and a line of quantity zero with its own rate.
LineInputs ==
    {[quantity |-> Num(3), unitPrice |-> Num(50), taxRate |-> Undefined,
      gstRate |-> Undefined],
     [quantity |-> Num(0), unitPrice |-> Num(50), taxRate |-> Num(18),
      gstRate |-> Undefined]}

SeqsUpTo(S, n) == UNION {[1..k -> S] : k \in 0..n}

NoCharges ==
    [discountAmount |-> Undefined, transportCharges |-> Undefined,
     otherCharges |-> Undefined, roundingAdjustment |-> Undefined]

\* The charge fields of a body that carries line items: none or all of them.
LineCharges ==
    {NoCharges,
     [discountAmount |-> Num(20), transportCharges |-> Num(40),
      otherCharges |-> Num(7), roundingAdjustment |-> Num(1)]}

\* The charge fields of a body without line items: none or one of them.
OnlyCharges ==
    {NoCharges,
     [NoCharges EXCEPT !.transportCharges = Num(40)],
     [NoCharges EXCEPT !.otherCharges = Num(7)]}

TaxTypes == {"IGST", "CGST_SGST"}
NoTaxType == "undefined"

\* The invoice-level taxType and taxRate of a body.
TaxInputs ==
    {[taxType |-> NoTaxType, taxRate |-> Num(5)],
     [taxType |-> "CGST_SGST", taxRate |-> Undefined]}

Customers == {"missing", "unknown", "found"}

Body(customerId, hasLines, lineItems, charges, tax) ==
    [customer |-> customerId, hasLines |-> hasLines, lineItems |-> lineItems,
     discountAmount |-> charges.discountAmount,
     transportCharges |-> charges.transportCharges,
     otherCharges |-> charges.otherCharges,
     roundingAdjustment |-> charges.roundingAdjustment,
     taxType |-> tax.taxType, taxRate |-> tax.taxRate]

\* hasLines tells whether the body carries a lineItems array at all.
CreateBodies ==
    {Body(c, TRUE, l, ch, t) : c \in Customers, l \in SeqsUpTo(LineInputs, MaxLines),
                               ch \in LineCharges, t \in TaxInputs}
    \cup {Body(c, FALSE, <<>>, NoCharges, t) : c \in Customers, t \in TaxInputs}

UpdateBodies ==
    {Body("found", TRUE, l, ch, t) : l \in SeqsUpTo(LineInputs, MaxLines),
                                     ch \in LineCharges, t \in TaxInputs}
    \cup {Body("found", FALSE, <<>>, ch, t) : ch \in OnlyCharges, t \in TaxInputs}

\* The line items of the bodies the amounts of a create are checked on:
\* fractional quantities, a rate of 0, a gstRate, absent, null, empty and
\* non-numeric fields, zeros and an infinite quantity.  Quantities are in
\* steps of 1/QuantityUnit.
AmountLine(quantity, unitPrice, taxRate, gstRate) ==
    [quantity |-> quantity, unitPrice |-> unitPrice, taxRate |-> taxRate,
     gstRate |-> gstRate]

AmountLineInputs ==
    {AmountLine(Num(3 * QuantityUnit), Num(10000), Num(18), Undefined),
     AmountLine(Num(6), Num(39), Num(28), Undefined),
     AmountLine(Num(2 * QuantityUnit), Num(50), Num(0), Undefined),
     AmountLine(Undefined, Num(50), Undefined, Num(12)),
     AmountLine(Num(QuantityUnit), Undefined, Undefined, Undefined),
     AmountLine(Null, EmptyStr, Undefined, Undefined),
     AmountLine(Text, Text, Undefined, Undefined),
     AmountLine(Num(0), Num(0), Undefined, Undefined),
     AmountLine(Infinite, Num(50), Undefined, Undefined),
     AmountLine(Infinite, Num(0), Undefined, Undefined)}

\* Line items of bodies the handler refuses: a negative quantity and a rate
\* above 100 fail the schema, opposite infinities make the totals NaN.
RefusedLineInputs ==
    {AmountLine(Num(0 - QuantityUnit), Num(50), Undefined, Undefined),
     AmountLine(Num(QuantityUnit), Num(50), Infinite, Undefined),
     AmountLine(Infinite, Num(50), Num(0 - 5), Undefined)}

AmountCharges ==
    {NoCharges,
     [discountAmount |-> Num(0), transportCharges |-> Num(4000),
      otherCharges |-> Num(700), roundingAdjustment |-> Num(0 - 1)],
     [discountAmount |-> Null, transportCharges |-> EmptyStr,
      otherCharges |-> Text, roundingAdjustment |-> Undefined],
     [discountAmount |-> Num(2000), transportCharges |-> Num(0),
      otherCharges |-> Num(0), roundingAdjustment |-> Num(0)]}

NoTax == [taxType |-> NoTaxType, taxRate |-> Undefined]

AmountTaxInputs ==
    {NoTax,
     [taxType |-> "IGST", taxRate |-> Num(5)],
     [taxType |-> "CGST_SGST", taxRate |-> Num(0)]}

AmountBodies ==
    {Body("found", TRUE, l, ch, t) :
        l \in SeqsUpTo(AmountLineInputs, MaxLines) \ {<<>>},
        ch \in AmountCharges, t \in AmountTaxInputs}
    \cup {Body("found", TRUE, <<l>>, NoCharges, NoTax) : l \in RefusedLineInputs}
    \cup {Body(c, h, <<>>, NoCharges, NoTax) :
             c \in Customers, h \in BOOLEAN}

StatusInputs == {"pending", "paid", "cancelled", "draft"}

(***************************************************************************)
(* The stored invoice document: the fields the handlers compute from.  The  *)
(* invoice-level taxRate is written and never read by them, and is left    *)
(* out.                                                                    *)
(***************************************************************************)
NoInvoice ==
    [exists |-> FALSE, status |-> "pending", paymentStatus |-> "pending",
     lineItems |-> <<>>, subtotal |-> 0, totalTaxAmount |-> 0,
     discountAmount |-> 0, transportCharges |-> 0, otherCharges |-> 0,
     roundingAdjustment |-> 0, finalAmount |-> 0, paidAmount |-> 0,
     balanceAmount |-> 0, igst |-> 0, cgst |-> 0, sgst |-> 0,
     taxType |-> "IGST", paidDate |-> "null"]

\* The customer record a tenant holds; no specification above the snapshot
\* one changes it.
NoCustomer == [exists |-> FALSE]

NoRequest == [op |-> "none", code |-> 0, shape |-> "-", status |-> "-", error |-> "-"]

(***************************************************************************)
(* invoiceSchema.pre('save'): totals, tax breakdown when none is set,       *)
(* payment status.                                                         *)
(***************************************************************************)
preSaveTotals(d) ==
    LET subtotal == SumField(d.lineItems, "lineTotal")
        totalTaxAmount == SumField(d.lineItems, "taxAmount")
        finalAmount == subtotal + totalTaxAmount - d.discountAmount
                         + d.transportCharges + d.otherCharges
                         + d.roundingAdjustment
    IN  [d EXCEPT !.subtotal = subtotal,
                  !.totalTaxAmount = totalTaxAmount,
                  !.finalAmount = finalAmount,
                  !.balanceAmount = finalAmount - d.paidAmount]

preSaveTaxBreakdown(d) ==
    IF d.totalTaxAmount > 0 /\ d.igst = 0 /\ d.cgst = 0 /\ d.sgst = 0
    THEN IF d.taxType = "CGST_SGST"
         THEN [d EXCEPT !.cgst = RoundHalf(d.totalTaxAmount),
                        !.sgst = RoundHalf(d.totalTaxAmount),
                        !.igst = 0]
         ELSE [d EXCEPT !.igst = d.totalTaxAmount, !.cgst = 0, !.sgst = 0]
    ELSE d

preSavePaymentStatus(d) ==
    IF d.balanceAmount <= 0
    THEN [d EXCEPT !.paymentStatus = "paid", !.status = "paid"]
    ELSE IF d.paidAmount > 0
         THEN [d EXCEPT !.paymentStatus = "partial"]
         ELSE [d EXCEPT !.paymentStatus = "pending"]

preSave(d) == preSavePaymentStatus(preSaveTaxBreakdown(preSaveTotals(d)))

(***************************************************************************)
(* POST /invoices.                                                         *)
(***************************************************************************)
\* Destructuring default of the body: taxRate = 18 when the field is absent.
BodyTaxRate(b) == IF b.taxRate.t = "undefined" THEN Num(DefaultTaxRate) ELSE b.taxRate

BodyTaxType(b) == IF b.taxType = NoTaxType THEN "IGST" ELSE b.taxType

\* One element of processedLineItems.  A quantity is held in steps of 1/unit
\* of a whole quantity and a price in paise, so quantity * unitPrice is in
\* 1/unit paise and the tax on it in 1/(100 * unit) paise until each is rounded.
processLineItem(item, taxRate, unit) ==
    LET quantity == safeNumber(item.quantity, DefaultQuantity * unit)
        unitPrice == safeNumber(item.unitPrice, 0)
        itemTaxRate == safeNumber(JsOr(JsOr(item.taxRate, item.gstRate), taxRate),
                                  DefaultTaxRate)
        product == Times[quantity, unitPrice]
        lineTotal == IF isNaN(product) THEN Fin(0) ELSE product
        taxed == Times[lineTotal, itemTaxRate]
        taxAmount == IF isNaN(taxed) THEN Fin(0) ELSE taxed
        sum == Plus[Times[lineTotal, Fin(100)], taxAmount]
        totalAmount == IF isNaN(sum) THEN Times[lineTotal, Fin(100)] ELSE sum
    IN  [quantity |-> quantity, unitPrice |-> unitPrice, taxRate |-> itemTaxRate,
         lineTotal |-> Round2[lineTotal, unit],
         taxAmount |-> Round2[taxAmount, 100 * unit],
         totalAmount |-> Round2[totalAmount, 100 * unit]]

\* The same element for finite inputs in whole quantities, as integers.
createLineItem(item, taxRate) ==
    LET x == processLineItem(item, taxRate, 1)
    IN  [quantity |-> x.quantity.v, unitPrice |-> x.unitPrice.v,
         taxRate |-> x.taxRate.v, lineTotal |-> x.lineTotal.v,
         taxAmount |-> x.taxAmount.v, totalAmount |-> x.totalAmount.v]

processedLineItems(items, taxRate) ==
    [i \in 1..Len(items) |-> createLineItem(items[i], taxRate)]

\* The totals the create handler computes from its processed line items and
\* the charges of the body, with its NaN fallbacks.  Charges are whole paise.
createTotals(lines, b) ==
    LET subtotal == SumOf(lines, "lineTotal")
        totalTaxAmount == SumOf(lines, "taxAmount")
        safeDiscountAmount == safeNumber(b.discountAmount, 0)
        safeTransportCharges == safeNumber(b.transportCharges, 0)
        safeOtherCharges == safeNumber(b.otherCharges, 0)
        safeRoundingAdjustment == safeNumber(b.roundingAdjustment, 0)
        sum == Plus[Plus[Plus[Minus[Plus[subtotal, totalTaxAmount],
                                    safeDiscountAmount],
                              safeTransportCharges],
                         safeOtherCharges],
                    safeRoundingAdjustment]
        finalAmount == IF isNaN(sum) THEN Plus[subtotal, totalTaxAmount] ELSE sum
        difference == Minus[finalAmount, Fin(0)]
        balanceAmount == IF isNaN(difference) THEN finalAmount ELSE difference
    IN  [lineItems |-> lines, subtotal |-> subtotal,
         totalTaxAmount |-> totalTaxAmount,
         discountAmount |-> safeDiscountAmount,
         transportCharges |-> safeTransportCharges,
         otherCharges |-> safeOtherCharges,
         roundingAdjustment |-> safeRoundingAdjustment,
         finalAmount |-> finalAmount, paidAmount |-> Fin(0),
         balanceAmount |-> balanceAmount]

\* The line items and amounts the create handler computes from a body.
createAmounts(b, unit) ==
    With([i \in 1..Len(b.lineItems) |->
             processLineItem(b.lineItems[i], BodyTaxRate(b), unit)],
         LAMBDA lines : createTotals(lines, b))

\* lineItemSchema: quantity and unitPrice at least 0, taxRate within 0..100.
validLineItems(lines) ==
    \A i \in 1..Len(lines) :
       /\ AtLeast(lines[i].quantity, 0)
       /\ AtLeast(lines[i].unitPrice, 0)
       /\ AtLeast(lines[i].taxRate, 0)
       /\ AtMost(lines[i].taxRate, 100)

\* A split that drops the odd paisa instead of rounding each half.
taxBreakdownTruncated(taxType, totalTaxAmount) ==
    IF taxType = "CGST_SGST"
    THEN [igst |-> 0, cgst |-> totalTaxAmount \div 2,
          sgst |-> totalTaxAmount \div 2]
    ELSE [igst |-> totalTaxAmount, cgst |-> 0, sgst |-> 0]

\* The igst / cgst / sgst of a total tax amount under a tax type.
taxBreakdown(taxType, totalTaxAmount) ==
    IF taxType = "CGST_SGST"
    THEN [igst |-> 0, cgst |-> RoundHalf(totalTaxAmount),
          sgst |-> RoundHalf(totalTaxAmount)]
    ELSE [igst |-> totalTaxAmount, cgst |-> 0, sgst |-> 0]

\* The document handed to new Invoice(...) by the create handler, for finite
\* inputs in whole quantities, as integers.
createDocument(b) ==
    With(createAmounts(b, 1), LAMBDA a :
        LET tax == taxBreakdown(BodyTaxType(b), a.totalTaxAmount.v)
        IN  [exists |-> TRUE, status |-> "pending", paymentStatus |-> "pending",
             lineItems |-> processedLineItems(b.lineItems, BodyTaxRate(b)),
             subtotal |-> a.subtotal.v,
             totalTaxAmount |-> a.totalTaxAmount.v,
             discountAmount |-> a.discountAmount.v,
             transportCharges |-> a.transportCharges.v,
             otherCharges |-> a.otherCharges.v,
             roundingAdjustment |-> a.roundingAdjustment.v,
             finalAmount |-> a.finalAmount.v, paidAmount |-> a.paidAmount.v,
             balanceAmount |-> a.balanceAmount.v,
             igst |-> tax.igst, cgst |-> tax.cgst, sgst |-> tax.sgst,
             taxType |-> BodyTaxType(b),
             paidDate |-> "null"])

\* The checks of the handler in their order: the message of the first failing
\* one, "-" when all pass.  The preconditions and the NaN check answer with
\* status 400; a document that fails schema validation makes save() throw,
\* which the catch answers with status 500.
createError(b, unit) ==
    IF b.customer = "missing" THEN "Customer ID is required"
    ELSE IF ~b.hasLines \/ Len(b.lineItems) = 0 THEN "Line items are required"
    ELSE IF b.customer = "unknown" THEN "Customer not found"
    ELSE With(createAmounts(b, unit), LAMBDA a :
            IF isNaN(a.finalAmount) \/ isNaN(a.balanceAmount)
                  \/ isNaN(a.subtotal) \/ isNaN(a.totalTaxAmount)
            THEN "Invalid calculation"
            ELSE IF ~validLineItems(a.lineItems) THEN "Failed to create invoice"
            ELSE "-")

createCode(error) ==
    IF error = "-" THEN 201
    ELSE IF error = "Failed to create invoice" THEN 500 ELSE 400

\* invoiceSchema.pre('save') on the document of a create, whose paidAmount is
\* 0 and whose charges are finite: totals and payment status.
preSaveAmounts(document) ==
    With(document, LAMBDA d :
        LET subtotal == SumOf(d.lineItems, "lineTotal")
            totalTaxAmount == SumOf(d.lineItems, "taxAmount")
            finalAmount == Plus[Plus[Plus[Minus[Plus[subtotal, totalTaxAmount],
                                                d.discountAmount],
                                          d.transportCharges],
                                     d.otherCharges],
                                d.roundingAdjustment]
            balanceAmount == Minus[finalAmount, d.paidAmount]
            paid == AtMost(balanceAmount, 0)
        IN  [d EXCEPT !.subtotal = subtotal,
                      !.totalTaxAmount = totalTaxAmount,
                      !.finalAmount = finalAmount,
                      !.balanceAmount = balanceAmount,
                      !.paymentStatus = IF paid THEN "paid" ELSE "pending",
                      !.status = IF paid THEN "paid" ELSE @])

\* The amounts of the document handed to new Invoice(...).
amountsDocument(b) ==
    With(createAmounts(b, QuantityUnit), LAMBDA a :
        [exists |-> TRUE, status |-> "pending", paymentStatus |-> "pending",
         lineItems |-> a.lineItems, subtotal |-> a.subtotal,
         totalTaxAmount |-> a.totalTaxAmount,
         discountAmount |-> a.discountAmount,
         transportCharges |-> a.transportCharges,
         otherCharges |-> a.otherCharges,
         roundingAdjustment |-> a.roundingAdjustment,
         finalAmount |-> a.finalAmount, paidAmount |-> a.paidAmount,
         balanceAmount |-> a.balanceAmount])

\* POST /invoices on bodies of any field values, observed through the amounts
\* it stores; the response keeps the body it answers.
CreateInvoiceAmounts(b) ==
    /\ ~invoice.exists
    /\ \E error \in {createError(b, QuantityUnit)} :
           /\ invoice' = IF error = "-" THEN preSaveAmounts(amountsDocument(b))
                          ELSE invoice
           /\ last' = [op |-> "create", code |-> createCode(error), shape |-> "-",
                       status |-> "-", error |-> error, body |-> b]
    /\ UNCHANGED <<numbers, req, customer, others>>

\* The model holds one document: a create is taken when none is stored.
CreateInvoice(b) ==
    /\ ~invoice.exists
    /\ \E error \in {createError(b, 1)} :
          IF error # "-"
          THEN /\ last' = [op |-> "create", code |-> createCode(error),
                           shape |-> "-", status |-> "-", error |-> error]
               /\ UNCHANGED invoice
          ELSE /\ invoice' = preSave(createDocument(b))
               /\ last' = [op |-> "create", code |-> 201, shape |-> "lines",
                           status |-> "-", error |-> "-"]
    /\ UNCHANGED <<numbers, req, customer, others>>

(***************************************************************************)
(* PUT /invoices/:id.                                                      *)
(***************************************************************************)
\* One element of the recomputed updateData.lineItems.
updateLineItem(item, bodyTaxRate) ==
    LET quantity == NumberOr(item.quantity, DefaultQuantity)
        unitPrice == NumberOr(item.unitPrice, 0)
        taxRate == NumberOr(JsOr(item.taxRate, item.gstRate),
                            NumberOr(bodyTaxRate, DefaultTaxRate))
        lineTotal == quantity * unitPrice
    IN  [quantity |-> quantity, unitPrice |-> unitPrice, taxRate |-> taxRate,
         lineTotal |-> lineTotal,
         taxAmount |-> Round100(lineTotal * taxRate),
         totalAmount |-> Round100(lineTotal * 100 + lineTotal * taxRate)]

updatedLineItems(items, bodyTaxRate) ==
    [i \in 1..Len(items) |-> updateLineItem(items[i], bodyTaxRate)]

\* The guard of the recomputation block.
updateRecomputes(b) ==
    b.hasLines \/ b.transportCharges.t # "undefined" \/ b.otherCharges.t # "undefined"

\* $set of a body field that is present: the stored value is left alone otherwise.
setField(stored, value) == IF value.t = "undefined" THEN stored ELSE value.v

\* The fields of the body as sent, applied to the stored document.
updateSetBody(d, b) ==
    [d EXCEPT !.discountAmount = setField(@, b.discountAmount),
              !.transportCharges = setField(@, b.transportCharges),
              !.otherCharges = setField(@, b.otherCharges),
              !.roundingAdjustment = setField(@, b.roundingAdjustment),
              !.taxType = IF b.taxType = NoTaxType THEN @ ELSE b.taxType]

\* The fields the recomputation block adds to updateData.
updateSetComputed(d, b) ==
    LET lines == updatedLineItems(b.lineItems, b.taxRate)
        subtotal == SumField(lines, "lineTotal")
        totalTaxAmount == SumField(lines, "taxAmount")
        finalAmount == subtotal + totalTaxAmount
                         - NumberOr(b.discountAmount, 0)
                         + NumberOr(b.transportCharges, 0)
                         + NumberOr(b.otherCharges, 0)
        taxType == BodyTaxType(b)
        tax == taxBreakdown(taxType, totalTaxAmount)
    IN  [d EXCEPT !.lineItems = lines,
                  !.subtotal = subtotal,
                  !.totalTaxAmount = totalTaxAmount,
                  !.finalAmount = finalAmount,
                  !.balanceAmount = finalAmount,
                  !.igst = tax.igst, !.cgst = tax.cgst, !.sgst = tax.sgst,
                  !.taxType = taxType]

updateShape(b) ==
    IF b.hasLines THEN "lines"
    ELSE IF updateRecomputes(b) THEN "charges" ELSE "other"

UpdateInvoice(b) ==
    /\ IF updateRecomputes(b) /\ ~b.hasLines
       THEN \* updateData.lineItems.map on undefined throws; the catch answers 500
            /\ last' = [op |-> "update", code |-> 500, shape |-> updateShape(b),
                        status |-> "-", error |-> "-"]
            /\ UNCHANGED invoice
       ELSE IF ~invoice.exists
       THEN /\ last' = [op |-> "update", code |-> 404, shape |-> updateShape(b),
                        status |-> "-", error |-> "-"]
            /\ UNCHANGED invoice
       ELSE /\ invoice' = IF updateRecomputes(b)
                          THEN updateSetComputed(updateSetBody(invoice, b), b)
                          ELSE updateSetBody(invoice, b)
            /\ last' = [op |-> "update", code |-> 200, shape |-> updateShape(b),
                        status |-> "-", error |-> "-"]
    /\ UNCHANGED <<numbers, req, customer, others>>

(***************************************************************************)
(* PUT /invoices/:id/status.                                               *)
(***************************************************************************)
\* The handler's assignments before invoice.save().
statusAssign(d, status) ==
    LET s == [d EXCEPT !.status = status, !.paymentStatus = status]
    IN  IF status = "paid"
        THEN [s EXCEPT !.paidAmount = d.finalAmount, !.balanceAmount = 0,
                       !.paidDate = "set"]
        ELSE IF status = "pending"
        THEN [s EXCEPT !.paidAmount = 0, !.balanceAmount = d.finalAmount,
                       !.paidDate = "null"]
        ELSE s

UpdateStatus(status) ==
    /\ IF status \notin {"pending", "paid", "cancelled"}
       THEN /\ last' = [op |-> "status", code |-> 400, shape |-> "-", status |-> status, error |-> "-"]
            /\ UNCHANGED invoice
       ELSE IF ~invoice.exists
       THEN /\ last' = [op |-> "status", code |-> 404, shape |-> "-", status |-> status, error |-> "-"]
            /\ UNCHANGED invoice
       ELSE /\ invoice' = preSave(statusAssign(invoice, status))
            /\ last' = [op |-> "status", code |-> 200, shape |-> "-", status |-> status, error |-> "-"]
    /\ UNCHANGED <<numbers, req, customer, others>>

(***************************************************************************)
(* DELETE /invoices/:id.                                                   *)
(***************************************************************************)
DeleteInvoice ==
    /\ IF invoice.exists
       THEN /\ invoice' = NoInvoice
            /\ last' = [op |-> "delete", code |-> 200, shape |-> "-", status |-> "-", error |-> "-"]
       ELSE /\ last' = [op |-> "delete", code |-> 404, shape |-> "-", status |-> "-", error |-> "-"]
            /\ UNCHANGED invoice
    /\ UNCHANGED <<numbers, req, customer, others>>

(***************************************************************************)
(* The descriptive part of an invoice: owner, customer snapshot (flat       *)
(* fields and the customerInfo mirror), invoiceType and tags, under the     *)
(* requests of two tenants.  Each tenant holds one customer, whose id is    *)
(* the tenant's name; the customer's name stands for its scalar fields      *)
(* (name, phone, email, gstin, vendorCode) and its city for the components  *)
(* of an address.  The amounts of the same requests are in Spec.            *)
(***************************************************************************)
Tenants == {"A", "B"}

\* A string field absent from a request body.
Absent == "undefined"

\* The customer records a tenant's customer passes through.
CustomerRecords ==
    {[name |-> "Asha", city |-> "Pune"], [name |-> "Asha Rao", city |-> "Delhi"]}

InitialCustomers == [t \in Tenants |-> [name |-> "Asha", city |-> "Pune"]]

\* invoiceType.toUpperCase()
toUpperCase(type) ==
    CASE type = "sales" -> "SALES"
      [] type = "purchase" -> "PURCHASE"
      [] type = "quotation" -> "QUOTATION"
      [] OTHER -> type

SnapshotBody(customerId, hasLines, customerName, billingCity, invoiceType, hasTags, tags, ownerId) ==
    [customerId |-> customerId, hasLines |-> hasLines,
     customerName |-> customerName, billingCity |-> billingCity,
     invoiceType |-> invoiceType, hasTags |-> hasTags, tags |-> tags,
     ownerId |-> ownerId]

SnapshotCreateBodies ==
    {SnapshotBody(c, TRUE, n, a, ty, tg # {}, tg, Absent) :
        c \in Tenants, n \in {Absent, "Ravi"}, a \in {Absent, "Goa"},
        ty \in {Absent, "PURCHASE", "quotation"},
        tg \in {{}, {"urgent"}, {"BUY"}}}
    \cup {SnapshotBody(Absent, TRUE, Absent, Absent, Absent, FALSE, {}, Absent),
          SnapshotBody("A", FALSE, Absent, Absent, Absent, FALSE, {}, Absent)}

\* Bodies of PUT /invoices/:id without line items or charges: any of the
\* stored fields, ownerId included.
SnapshotUpdateBodies ==
    {SnapshotBody(Absent, FALSE, n, a, ty, h, tg, o) :
        n \in {Absent, "Ravi"}, a \in {Absent, "Goa"},
        ty \in {Absent, "PURCHASE"},
        h \in BOOLEAN, tg \in {{}, {"urgent"}},
        o \in {Absent} \cup Tenants}

\* a || b on strings: the empty string is falsy.
StrOr(a, b) == IF a # Absent /\ a # "" THEN a ELSE b

\* finalInvoiceType and finalTags of the create handler.
finalInvoiceType(b) ==
    IF b.invoiceType # Absent THEN toUpperCase(b.invoiceType)
    ELSE IF b.tags # {}
    THEN IF "SALES" \in b.tags \/ "SALE" \in b.tags THEN "SALES"
         ELSE IF "PURCHASE" \in b.tags \/ "BUY" \in b.tags THEN "PURCHASE"
         ELSE IF "QUOTATION" \in b.tags \/ "QUOTE" \in b.tags THEN "QUOTATION"
         ELSE "SALES"
    ELSE "SALES"

finalTags(b) ==
    IF b.invoiceType # Absent
    THEN IF b.tags # {} THEN b.tags ELSE {finalInvoiceType(b)}
    ELSE IF b.tags # {} THEN b.tags
    ELSE {"SALES"}

\* invoiceSchema.pre('save'): the flat fields copied to customerInfo.
preSaveCustomerInfo(d) ==
    IF d.customerName # ""
    THEN [d EXCEPT !.customerInfo =
            [name |-> d.customerName,
             billingAddress |-> IF d.billingCity # ""
                                THEN [city |-> d.billingCity]
                                ELSE @.billingAddress]]
    ELSE d

\* The descriptive fields of the document handed to new Invoice(...).
snapshotDocument(t, b) ==
    LET finalCustomerName == StrOr(b.customerName, customer[t].name)
        finalBillingCity == StrOr(b.billingCity, customer[t].city)
    IN  [exists |-> TRUE, ownerId |-> t, customerId |-> t,
         customerName |-> finalCustomerName,
         billingCity |-> finalBillingCity,
         customerInfo |-> [name |-> finalCustomerName,
                           billingAddress |-> [city |-> finalBillingCity]],
         invoiceType |-> finalInvoiceType(b), tags |-> finalTags(b)]

Response(op, t, code) == [op |-> op, tenant |-> t, code |-> code]

\* POST /invoices of tenant t: Customer.findOne({_id: customerId, ownerId})
\* finds the customer when it is the tenant's own.
CreateSnapshot(t, b) ==
    /\ ~invoice.exists
    /\ IF b.customerId = Absent \/ ~b.hasLines \/ b.customerId # t
       THEN /\ last' = Response("create", t, 400)
            /\ UNCHANGED invoice
       ELSE /\ invoice' = preSaveCustomerInfo(snapshotDocument(t, b))
            /\ last' = Response("create", t, 201)
    /\ UNCHANGED <<numbers, req, customer, others>>

Owned(t) == invoice.exists /\ invoice.ownerId = t

\* customer?.billingAddress || {} of the customer the invoice refers to, as
\* Customer.findOne({_id: invoice.customerId, ownerId}) finds it for t.
liveBillingAddress(t) ==
    IF invoice.customerId = t THEN [city |-> customer[t].city] ELSE [city |-> ""]

\* GET /invoices/:id of tenant t: the response carries the document with the
\* addresses of customerInfo taken from the customer record.
GetInvoice(t) ==
    /\ IF Owned(t)
       THEN last' = [op |-> "get", tenant |-> t, code |-> 200,
                     invoice |-> [invoice EXCEPT !.customerInfo.billingAddress =
                                                    liveBillingAddress(t)],
                     customerBillingAddress |-> liveBillingAddress(t)]
       ELSE last' = Response("get", t, 404)
    /\ UNCHANGED <<invoice, numbers, req, customer, others>>

\* The tags consistency step of the update handler: the tags of updateData.
updateTags(b) ==
    IF b.invoiceType # Absent /\ (~b.hasTags \/ b.tags = {})
    THEN [hasTags |-> TRUE, tags |-> {b.invoiceType}]
    ELSE [hasTags |-> b.hasTags, tags |-> b.tags]

\* findOneAndUpdate({_id, ownerId}, updateData): every field of the body is
\* set on the stored document; no pre('save') hook runs.
setFields(d, b) ==
    [d EXCEPT !.customerName = IF b.customerName = Absent THEN @ ELSE b.customerName,
              !.billingCity = IF b.billingCity = Absent THEN @ ELSE b.billingCity,
              !.invoiceType = IF b.invoiceType = Absent THEN @ ELSE b.invoiceType,
              !.tags = IF updateTags(b).hasTags THEN updateTags(b).tags ELSE @,
              !.ownerId = IF b.ownerId = Absent THEN @ ELSE b.ownerId]

\* PUT /invoices/:id of tenant t with a body without line items or charges.
UpdateSnapshot(t, b) ==
    /\ IF Owned(t)
       THEN /\ invoice' = setFields(invoice, b)
            /\ last' = Response("update", t, 200)
       ELSE /\ last' = Response("update", t, 404)
            /\ UNCHANGED invoice
    /\ UNCHANGED <<numbers, req, customer, others>>

\* PUT /invoices/:id/status of tenant t with a valid status: findOne, save().
StatusSnapshot(t) ==
    /\ IF Owned(t)
       THEN /\ invoice' = preSaveCustomerInfo(invoice)
            /\ last' = Response("status", t, 200)
       ELSE /\ last' = Response("status", t, 404)
            /\ UNCHANGED invoice
    /\ UNCHANGED <<numbers, req, customer, others>>

\* DELETE /invoices/:id of tenant t.
DeleteSnapshot(t) ==
    /\ IF Owned(t)
       THEN /\ invoice' = NoInvoice
            /\ last' = Response("delete", t, 200)
       ELSE /\ last' = Response("delete", t, 404)
            /\ UNCHANGED invoice
    /\ UNCHANGED <<numbers, req, customer, others>>

\* PUT /customers/:id of tenant t on its own customer.
UpdateCustomer(t, c) ==
    /\ customer' = [customer EXCEPT ![t] = c]
    /\ last' = Response("customer", t, 200)
    /\ UNCHANGED <<invoice, numbers, req, others>>

(***************************************************************************)
(* Invoice numbering of POST /invoices under concurrent requests.          *)
(***************************************************************************)
Candidates == 1..NumCandidates
Requests == 1..NumRequests
NoNumber == 0

NoNumbers == [c \in Candidates |-> 0]
NewRequest == [pc |-> "loop", attempts |-> 0, invoiceNumber |-> NoNumber]

\* The loop without its inner return: at the bound the while condition ends
\* the loop and the handler goes on to save the last candidate.
loopStepFallsThrough(r, existing, c) ==
    IF ~existing
    THEN [r EXCEPT !.invoiceNumber = c, !.pc = "save"]
    ELSE IF r.attempts + 1 >= maxAttempts
         THEN [r EXCEPT !.attempts = r.attempts + 1, !.invoiceNumber = c,
                        !.pc = "save"]
         ELSE [r EXCEPT !.attempts = r.attempts + 1, !.invoiceNumber = c]

\* One pass of the while loop: a candidate c and the result of its
\* Invoice.findOne.  pc "save": the break; pc "failed": the 500 response.
loopStep(r, existing, c) ==
    IF ~existing
    THEN [r EXCEPT !.invoiceNumber = c, !.pc = "save"]
    ELSE IF r.attempts + 1 >= maxAttempts
         THEN [r EXCEPT !.attempts = r.attempts + 1, !.invoiceNumber = c,
                        !.pc = "failed"]
         ELSE [r EXCEPT !.attempts = r.attempts + 1, !.invoiceNumber = c]

GenerateNumber(i, c) ==
    /\ req[i].pc = "loop"
    /\ req[i].attempts < maxAttempts
    /\ req' = [req EXCEPT ![i] = loopStep(req[i], numbers[c] > 0, c)]
    /\ UNCHANGED <<invoice, last, numbers, customer, others>>

\* invoice.save() of a request that left the loop with a number.
SaveInvoice(i) ==
    /\ req[i].pc = "save"
    /\ numbers' = [numbers EXCEPT ![req[i].invoiceNumber] = @ + 1]
    /\ req' = [req EXCEPT ![i].pc = "done"]
    /\ UNCHANGED <<invoice, last, customer, others>>

\* The store as one request sees it change: an invoice.save() of any other
\* create request, and a DELETE /invoices/:id.
StoreInsert(c) ==
    /\ numbers[c] < MaxStored
    /\ numbers' = [numbers EXCEPT ![c] = @ + 1]
    /\ UNCHANGED <<invoice, last, req, customer, others>>

StoreDelete(c) ==
    /\ numbers[c] > 0
    /\ numbers' = [numbers EXCEPT ![c] = @ - 1]
    /\ UNCHANGED <<invoice, last, req, customer, others>>

(***************************************************************************)
(* The Counter model and getNextSequence, called concurrently.  The one     *)
(* await of a call is Counter.findByIdAndUpdate(name, {$inc: {seq: 1}},     *)
(* {new: true, upsert: true}), which the database applies to the counter    *)
(* document as a single operation.                                          *)
(***************************************************************************)
Callers == 1..NumCalls

CounterKeys == {"invoice", "item"}

NoCounter == [exists |-> FALSE, seq |-> 0]

NoCall == [pc |-> "idle", name |-> "-", result |-> 0]

\* $inc: {seq: 1} with upsert: true.  A missing document is inserted with the
\* increment applied to no value, that is with seq 1.
incSeq(doc) == [exists |-> TRUE, seq |-> doc.seq + 1]

\* new: false: the document as it was before the update.
returnedBefore(before, after) == before

\* new: true: the document as it is after the update.
returnedDocument(before, after) == after

InitCounters ==
    /\ counters = [k \in CounterKeys |-> NoCounter]
    /\ calls = [c \in Callers |-> NoCall]

\* getNextSequence(name) is called: the update is sent and awaited.
CallGetNextSequence(c, name) ==
    /\ calls[c].pc = "idle"
    /\ calls' = [calls EXCEPT ![c] = [pc |-> "awaiting", name |-> name, result |-> 0]]
    /\ UNCHANGED <<counters, exceptSeq>>

\* The database applies the update; the call returns result.seq.
FindByIdAndUpdate(c) ==
    /\ calls[c].pc = "awaiting"
    /\ counters' = [counters EXCEPT ![calls[c].name] = incSeq(@)]
    /\ calls' = [calls EXCEPT ![c].pc = "returned",
                              ![c].result = returnedDocument(counters[calls[c].name],
                                                counters'[calls[c].name]).seq]
    /\ UNCHANGED <<exceptSeq>>

\* The database fails the update; the catch block rethrows and the call
\* completes with no value.
ThrowGetNextSequence(c) ==
    /\ calls[c].pc = "awaiting"
    /\ calls' = [calls EXCEPT ![c].pc = "thrown"]
    /\ UNCHANGED <<counters, exceptSeq>>

(***************************************************************************)
(* The item-code and part-number sequences of BusinessSettings, taken by    *)
(* concurrent requests of one tenant.  A request loads the settings         *)
(* document, calls getNextItemCode or getNextPartNumber on its copy and     *)
(* saves it; save() writes the paths the request modified.                  *)
(***************************************************************************)
Loaders == 1..NumLoads

SequenceKinds == {"itemCode", "partNumber"}

\* itemSettings of a new settings document: the schema defaults.
DefaultItemSettings ==
    [itemCodePrefix |-> "ITM", itemPartNumberPrefix |-> "PN",
     nextItemCodeSequence |-> 1, nextPartNumberSequence |-> 1]

NoLoad == [pc |-> "idle", kind |-> "-", doc |-> DefaultItemSettings, code |-> <<>>]

\* String(n): the decimal digits of n.
RECURSIVE String(_)
String(n) == IF n < 10 THEN <<n>> ELSE Append(String(n \div 10), n % 10)

\* padStart(targetLength, '0')
RECURSIVE padStart(_, _)
padStart(digits, targetLength) ==
    IF Len(digits) >= targetLength THEN digits
    ELSE padStart(<<0>> \o digits, targetLength)

\* `${prefix}-${String(sequence).padStart(3, '0')}`
formatCode(prefix, sequence) == <<prefix, "-">> \o padStart(String(sequence), 3)

InitSettings ==
    /\ settings = DefaultItemSettings
    /\ loads = [r \in Loaders |-> NoLoad]

\* The request reads the settings document of the tenant.
LoadSettings(r, kind) ==
    /\ loads[r].pc = "idle"
    /\ loads' = [loads EXCEPT ![r] = [pc |-> "loaded", kind |-> kind,
                                       doc |-> settings, code |-> <<>>]]
    /\ UNCHANGED <<settings, exceptSettings>>

\* getNextItemCode on the loaded copy.
getNextItemCode(r) ==
    /\ loads[r].pc = "loaded"
    /\ loads[r].kind = "itemCode"
    /\ loads' = [loads EXCEPT
                   ![r].code = formatCode(loads[r].doc.itemCodePrefix,
                                          loads[r].doc.nextItemCodeSequence),
                   ![r].doc.nextItemCodeSequence = @ + 1,
                   ![r].pc = "called"]
    /\ UNCHANGED <<settings, exceptSettings>>

\* getNextPartNumber on the loaded copy.
getNextPartNumber(r) ==
    /\ loads[r].pc = "loaded"
    /\ loads[r].kind = "partNumber"
    /\ loads' = [loads EXCEPT
                   ![r].code = formatCode(loads[r].doc.itemPartNumberPrefix,
                                          loads[r].doc.nextPartNumberSequence),
                   ![r].doc.nextPartNumberSequence = @ + 1,
                   ![r].pc = "called"]
    /\ UNCHANGED <<settings, exceptSettings>>

\* settings.save(): the modified path is set to the value of the copy.
SaveSettings(r) ==
    /\ loads[r].pc = "called"
    /\ settings' = IF loads[r].kind = "itemCode"
                   THEN [settings EXCEPT !.nextItemCodeSequence =
                                            loads[r].doc.nextItemCodeSequence]
                   ELSE [settings EXCEPT !.nextPartNumberSequence =
                                            loads[r].doc.nextPartNumberSequence]
    /\ loads' = [loads EXCEPT ![r].pc = "saved"]
    /\ UNCHANGED exceptSettings

(***************************************************************************)
(* One business owner: login, the requireAuth middleware, and the admin     *)
(* routes that force a logout, change the status, lock and unlock.  A       *)
(* token is a signed { ownerId }; requireAuth verifies the signature and    *)
(* reads the owner.  A token is "outdated" once a logout has been forced    *)
(* after it was issued.  The seven days a token stays valid are not         *)
(* modelled.  Each handler is one action.                                   *)
(***************************************************************************)
TokenIds == 1..MaxTokens

\* The credentials of a login request: complete and right, a wrong password,
\* a phone and business name of no owner, a missing field.
Credentials == {"valid", "wrongPassword", "unknown", "missing"}

OwnerStatuses == {"active", "suspended", "inactive"}

NewOwner == [status |-> "active", isLocked |-> FALSE, forceLogout |-> FALSE]

InitAuth ==
    /\ owner = NewOwner
    /\ tokens = [k \in TokenIds |-> "unissued"]

Answer(op, code, forceLogout, token) ==
    [op |-> op, code |-> code, forceLogout |-> forceLogout, token |-> token]

\* The checks of POST /login with the forceLogout check moved before the
\* password check.
loginAnswerFlagFirst(o, credentials) ==
    IF credentials = "missing" THEN [code |-> 400, forceLogout |-> FALSE]
    ELSE IF credentials = "unknown" THEN [code |-> 401, forceLogout |-> FALSE]
    ELSE IF o.forceLogout THEN [code |-> 401, forceLogout |-> TRUE]
    ELSE IF credentials = "wrongPassword" THEN [code |-> 401, forceLogout |-> FALSE]
    ELSE IF o.status # "active" THEN [code |-> 401, forceLogout |-> FALSE]
    ELSE [code |-> 200, forceLogout |-> FALSE]

\* The checks of POST /login in their order: the status and the forceLogout
\* flag of the response.
loginAnswer(o, credentials) ==
    IF credentials = "missing" THEN [code |-> 400, forceLogout |-> FALSE]
    ELSE IF credentials = "unknown" THEN [code |-> 401, forceLogout |-> FALSE]
    ELSE IF credentials = "wrongPassword" THEN [code |-> 401, forceLogout |-> FALSE]
    ELSE IF o.status # "active" THEN [code |-> 401, forceLogout |-> FALSE]
    ELSE IF o.forceLogout THEN [code |-> 401, forceLogout |-> TRUE]
    ELSE [code |-> 200, forceLogout |-> FALSE]

\* POST /login.  A rejection for forceLogout unsets the flag; a success, of a
\* locked account too, issues a token.
Login(credentials) ==
    \E answer \in {loginAnswer(owner, credentials)} :
        IF answer.code = 200
        THEN /\ \E k \in TokenIds :
                    /\ tokens[k] = "unissued"
                    /\ \A j \in TokenIds : j < k => tokens[j] # "unissued"
                    /\ tokens' = [tokens EXCEPT ![k] = "issued"]
                    /\ last' = Answer("login", 200, FALSE, k)
             /\ UNCHANGED <<owner, exceptAuth>>
        ELSE /\ owner' = IF answer.forceLogout
                         THEN [owner EXCEPT !.forceLogout = FALSE]
                         ELSE owner
             /\ last' = Answer("login", answer.code, answer.forceLogout, 0)
             /\ UNCHANGED <<tokens, exceptAuth>>

\* POST /logout-shop/:businessId of an admin.
ForceLogout ==
    /\ owner' = [owner EXCEPT !.forceLogout = TRUE]
    /\ tokens' = [k \in TokenIds |-> IF tokens[k] = "unissued" THEN "unissued"
                                       ELSE "outdated"]
    /\ last' = Answer("logout-shop", 200, FALSE, 0)
    /\ UNCHANGED exceptAuth

\* PUT /businesses/:id/status of an admin.
SetOwnerStatus(status) ==
    /\ owner' = [owner EXCEPT !.status = status]
    /\ last' = Answer("status", 200, FALSE, 0)
    /\ UNCHANGED <<tokens, exceptAuth>>

\* PUT /businesses/:id/lock and /unlock of an admin.
SetOwnerLock(isLocked) ==
    /\ owner' = [owner EXCEPT !.isLocked = isLocked]
    /\ last' = Answer("lock", 200, FALSE, 0)
    /\ UNCHANGED <<tokens, exceptAuth>>

\* requireAuth on a request carrying token k (0: no token; a token never
\* issued fails jwt.verify).
requireAuth(k) ==
    /\ last' = IF k = 0 \/ tokens[k] = "unissued" THEN Answer("request", 401, FALSE, k)
               ELSE IF owner.status # "active" THEN Answer("request", 401, FALSE, k)
               ELSE Answer("request", 200, FALSE, k)
    /\ UNCHANGED <<owner, tokens, exceptAuth>>

(***************************************************************************)
(* The bank-detail routes of one tenant on the bankAccounts list of its      *)
(* BusinessSettings document: PUT /, POST /accounts,                         *)
(* PUT /accounts/:accountId, DELETE /accounts/:accountId, each ending in    *)
(* settings.save() with the pre('save') hook of the schema.  An account is  *)
(* its id and isPrimary; the other fields are as valid as the schema asks,  *)
(* or the request says which required one is missing.  Each handler is one  *)
(* action.                                                                  *)
(***************************************************************************)
primaryAccountId == "primary-main"

NoBank == [exists |-> FALSE, bankAccounts |-> <<>>]

InitBank ==
    /\ bank = NoBank
    /\ clock = 1

\* The ids a request names: the main account, the ids the clock gives.
AccountIds == {primaryAccountId} \cup {ToString(now) : now \in 1..MaxClock}

\* isPrimary of a request body: absent, true or false.
PrimaryInputs == {Absent, "true", "false"}

\* findIndex(acc => acc.id === accountId): 0 when there is none.
findIndex(accounts, accountId) ==
    IF \E i \in 1..Len(accounts) : accounts[i].id = accountId
    THEN CHOOSE i \in 1..Len(accounts) :
            /\ accounts[i].id = accountId
            /\ \A j \in 1..(i - 1) : accounts[j].id # accountId
    ELSE 0

\* filter(account => account.id !== accountId)
RECURSIVE withoutId(_, _)
withoutId(accounts, accountId) ==
    IF accounts = <<>> THEN <<>>
    ELSE IF Head(accounts).id = accountId THEN withoutId(Tail(accounts), accountId)
    ELSE <<Head(accounts)>> \o withoutId(Tail(accounts), accountId)

\* The hook left out: the list is saved as the handler made it.
preSaveBankUnchecked(accounts) == accounts

\* businessSettingsSchema.pre('save'): of several primary accounts the first
\* stays primary.
preSaveBank(accounts) ==
    [i \in 1..Len(accounts) |->
        IF accounts[i].isPrimary /\ \E j \in 1..(i - 1) : accounts[j].isPrimary
        THEN [accounts[i] EXCEPT !.isPrimary = FALSE]
        ELSE accounts[i]]

BankAnswer(op, code, accountId) == [op |-> op, code |-> code, accountId |-> accountId]

\* PUT /: the main bank details and their 'primary-main' entry.  The entry
\* takes the account number of the body, which the schema requires.
PutBankDetails(hasBankName, hasAccountNumber) ==
    /\ IF ~hasBankName
       THEN /\ last' = BankAnswer("putBankDetails", 400, primaryAccountId)
            /\ UNCHANGED bank
       ELSE IF ~hasAccountNumber
       THEN /\ last' = BankAnswer("putBankDetails", 500, primaryAccountId)
            /\ UNCHANGED bank
       ELSE \E existingAccountIndex \in {findIndex(bank.bankAccounts, primaryAccountId)} :
              \E entry \in {[id |-> primaryAccountId, isPrimary |-> TRUE]} :
                /\ existingAccountIndex = 0 => Len(bank.bankAccounts) < MaxAccounts
                /\ \E placed \in {IF existingAccountIndex = 0
                                    THEN Append(bank.bankAccounts, entry)
                                    ELSE [bank.bankAccounts EXCEPT ![existingAccountIndex] = entry]} :
                       bank' = [exists |-> TRUE,
                                bankAccounts |-> preSaveBank(
                                    [i \in 1..Len(placed) |->
                                        IF placed[i].id # primaryAccountId
                                        THEN [placed[i] EXCEPT !.isPrimary = FALSE]
                                        ELSE placed[i]])]
                /\ last' = BankAnswer("putBankDetails", 200, primaryAccountId)
    /\ UNCHANGED <<clock, exceptBank>>

\* POST /accounts at the millisecond now: new Date().getTime().toString() is
\* the id of the new account.
PostAccount(hasRequired, isPrimary, now) ==
    /\ now >= clock
    /\ clock' = now
    /\ IF ~hasRequired
       THEN /\ last' = BankAnswer("postAccount", 400, ToString(now))
            /\ UNCHANGED bank
       ELSE /\ Len(bank.bankAccounts) < MaxAccounts
            /\ \E demoted \in {IF isPrimary = "true"
                                THEN [i \in 1..Len(bank.bankAccounts) |->
                                        [bank.bankAccounts[i] EXCEPT !.isPrimary = FALSE]]
                                ELSE bank.bankAccounts} :
                   bank' = [exists |-> TRUE,
                            bankAccounts |-> preSaveBank(
                                Append(demoted, [id |-> ToString(now),
                                                isPrimary |-> (isPrimary = "true")]))]
            /\ last' = BankAnswer("postAccount", 200, ToString(now))
    /\ UNCHANGED exceptBank

\* PUT /accounts/:accountId: the body is spread over the stored account, so
\* it may carry an id as well as isPrimary.
PutAccount(accountId, id, isPrimary) ==
    /\ \E accountIndex \in {findIndex(bank.bankAccounts, accountId)} :
          IF ~bank.exists \/ accountIndex = 0
          THEN /\ last' = BankAnswer("putAccount", 404, accountId)
               /\ UNCHANGED bank
          ELSE \E updatedAccount \in
                    {[id |-> IF id = Absent THEN bank.bankAccounts[accountIndex].id ELSE id,
                      isPrimary |-> IF isPrimary = Absent
                                    THEN bank.bankAccounts[accountIndex].isPrimary
                                    ELSE isPrimary = "true"]} :
                 /\ bank' = [bank EXCEPT !.bankAccounts = preSaveBank(
                                [i \in 1..Len(bank.bankAccounts) |->
                                    IF i = accountIndex THEN updatedAccount
                                    ELSE IF isPrimary = "true"
                                    THEN [bank.bankAccounts[i] EXCEPT !.isPrimary = FALSE]
                                    ELSE bank.bankAccounts[i]])]
                 /\ last' = BankAnswer("putAccount", 200, accountId)
    /\ UNCHANGED <<clock, exceptBank>>

\* DELETE /accounts/:accountId.  When the account found was primary the
\* first that remains becomes primary.
DeleteAccount(accountId) ==
    /\ \E accountIndex \in {findIndex(bank.bankAccounts, accountId)} :
          IF ~bank.exists \/ accountIndex = 0
          THEN /\ last' = BankAnswer("deleteAccount", 404, accountId)
               /\ UNCHANGED bank
          ELSE IF accountId = primaryAccountId
          THEN /\ last' = BankAnswer("deleteAccount", 400, accountId)
               /\ UNCHANGED bank
          ELSE \E remaining \in {withoutId(bank.bankAccounts, accountId)} :
                 /\ bank' = [bank EXCEPT !.bankAccounts = preSaveBank(
                                IF bank.bankAccounts[accountIndex].isPrimary /\ Len(remaining) > 0
                                THEN [remaining EXCEPT ![1].isPrimary = TRUE]
                                ELSE remaining)]
                 /\ last' = BankAnswer("deleteAccount", 200, accountId)
    /\ UNCHANGED <<clock, exceptBank>>

(***************************************************************************)
(* POST /products/:id/stock/add and /stock/remove on one product of the     *)
(* tenant.  A request validates its quantity, reads the product             *)
(* (Item.findOne), computes the new stockQuantity on its copy and saves     *)
(* it; the read and the save are its two steps.  Quantities are numbers of  *)
(* 1/StockUnit.                                                             *)
(***************************************************************************)
Movers == 1..NumMoves

StockOps == {"add", "remove"}

\* The stock of the product before the requests: one unit.
InitialStock == StockUnit

NoMove == [pc |-> "idle", op |-> "-", quantity |-> Undefined, product |-> 0, code |-> 0]

InitStock ==
    /\ stock = InitialStock
    /\ moves = [r \in Movers |-> NoMove]

\* The quantity of a request body: missing, zero, negative, half a unit, one
\* unit, one and a half, two units, a text that is no number.
StockQuantities ==
    {Undefined, Num(0), Num(0 - StockUnit), Num(1), Num(StockUnit), Num(StockUnit + 1),
     Num(2 * StockUnit), Text}

\* Quantities of whole units.
WholeQuantities == {Num(StockUnit), Num(2 * StockUnit)}

\* !quantity || quantity <= 0; a text that is no number compares false.
invalidQuantity(quantity) ==
    ~Truthy(quantity) \/ (quantity.t = "number" /\ quantity.v <= 0)

\* parseInt(quantity) of a positive number: its whole units.
parseInt(quantity) == (quantity.v \div StockUnit) * StockUnit

\* product.stockQuantity < quantity
insufficient(stockQuantity, quantity) ==
    quantity.t = "number" /\ stockQuantity < quantity.v

\* The request is validated and reads the product.
FindProduct(r, op, quantity) ==
    /\ moves[r].pc = "idle"
    /\ moves' = [moves EXCEPT ![r] =
                    IF invalidQuantity(quantity)
                    THEN [pc |-> "done", op |-> op, quantity |-> quantity,
                          product |-> 0, code |-> 400]
                    ELSE [pc |-> "found", op |-> op, quantity |-> quantity,
                          product |-> stock, code |-> 0]]
    /\ UNCHANGED <<stock, exceptStock>>

\* The rest of the handler on the copy read: the stock check of a removal,
\* the new stockQuantity, product.save().  A quantity that is no number
\* makes the new stockQuantity NaN, which save() refuses.
SaveProduct(r) ==
    /\ moves[r].pc = "found"
    /\ IF moves[r].op = "remove" /\ insufficient(moves[r].product, moves[r].quantity)
       THEN /\ moves' = [moves EXCEPT ![r].pc = "done", ![r].code = 400]
            /\ UNCHANGED stock
       ELSE IF moves[r].quantity.t # "number"
       THEN /\ moves' = [moves EXCEPT ![r].pc = "done", ![r].code = 500]
            /\ UNCHANGED stock
       ELSE /\ stock' = IF moves[r].op = "add"
                        THEN moves[r].product + parseInt(moves[r].quantity)
                        ELSE IF moves[r].product - parseInt(moves[r].quantity) > 0
                        THEN moves[r].product - parseInt(moves[r].quantity)
                        ELSE 0
            /\ moves' = [moves EXCEPT ![r].pc = "done", ![r].code = 200]
    /\ UNCHANGED exceptStock

\* No other request is between its read and its save.
Sequential(r) == \A o \in Movers \ {r} : moves[o].pc # "found"

(***************************************************************************)
(* Specifications.                                                         *)
(***************************************************************************)
\* The initial state of what the invoice routes leave alone.
InitOthers ==
    /\ InitCounters
    /\ InitSettings
    /\ InitAuth
    /\ InitBank
    /\ InitStock

Init ==
    /\ invoice = NoInvoice
    /\ last = NoRequest
    /\ numbers = NoNumbers
    /\ req = [i \in Requests |-> NewRequest]
    /\ customer = NoCustomer
    /\ InitOthers

Next ==
    \/ \E b \in CreateBodies : CreateInvoice(b)
    \/ \E b \in UpdateBodies : UpdateInvoice(b)
    \/ \E s \in StatusInputs : UpdateStatus(s)
    \/ DeleteInvoice

Spec == Init /\ [][Next]_vars

\* The invoice store starts with any set of numbers already taken.
InitNum ==
    /\ invoice = NoInvoice
    /\ last = NoRequest
    /\ numbers \in [Candidates -> {0, 1}]
    /\ req = [i \in Requests |-> NewRequest]
    /\ customer = NoCustomer
    /\ InitOthers

NextNum ==
    \/ \E i \in Requests, c \in Candidates : GenerateNumber(i, c)
    \/ \E i \in Requests : SaveInvoice(i)

SpecNum == InitNum /\ [][NextNum]_vars

\* Creates over bodies of any field values, each deleted before the next.
NextAmounts ==
    \/ \E b \in AmountBodies : CreateInvoiceAmounts(b)
    \/ DeleteInvoice

SpecAmounts == Init /\ [][NextAmounts]_vars

\* The requests of two tenants on the descriptive part of an invoice.
InitSnapshot ==
    /\ invoice = NoInvoice
    /\ last = NoRequest
    /\ numbers = NoNumbers
    /\ req = [i \in Requests |-> NewRequest]
    /\ customer = InitialCustomers
    /\ InitOthers

NextSnapshot ==
    \/ \E t \in Tenants, b \in SnapshotCreateBodies : CreateSnapshot(t, b)
    \/ \E t \in Tenants : GetInvoice(t)
    \/ \E t \in Tenants, b \in SnapshotUpdateBodies : UpdateSnapshot(t, b)
    \/ \E t \in Tenants : StatusSnapshot(t)
    \/ \E t \in Tenants : DeleteSnapshot(t)
    \/ \E t \in Tenants, c \in CustomerRecords : UpdateCustomer(t, c)

SpecSnapshot == InitSnapshot /\ [][NextSnapshot]_vars

\* Concurrent calls of getNextSequence.
NextCounter ==
    \/ \E c \in Callers, name \in CounterKeys : CallGetNextSequence(c, name)
    \/ \E c \in Callers : FindByIdAndUpdate(c)
    \/ \E c \in Callers : ThrowGetNextSequence(c)

SpecCounter == Init /\ [][NextCounter]_vars

\* Concurrent requests taking item codes and part numbers.
NextSettings ==
    \/ \E r \in Loaders, kind \in SequenceKinds : LoadSettings(r, kind)
    \/ \E r \in Loaders : getNextItemCode(r)
    \/ \E r \in Loaders : getNextPartNumber(r)
    \/ \E r \in Loaders : SaveSettings(r)

SpecSettings == Init /\ [][NextSettings]_vars

\* Logins, authenticated requests and admin actions on one business owner.
NextAuth ==
    \/ \E credentials \in Credentials : Login(credentials)
    \/ ForceLogout
    \/ \E status \in OwnerStatuses : SetOwnerStatus(status)
    \/ \E isLocked \in BOOLEAN : SetOwnerLock(isLocked)
    \/ \E k \in {0} \cup TokenIds : requireAuth(k)

SpecAuth == Init /\ [][NextAuth]_vars

\* The bank-detail requests of one tenant, one after another.
NextBank ==
    \/ \E hasBankName, hasAccountNumber \in BOOLEAN :
           PutBankDetails(hasBankName, hasAccountNumber)
    \/ \E hasRequired \in BOOLEAN, isPrimary \in PrimaryInputs, now \in 1..MaxClock :
           PostAccount(hasRequired, isPrimary, now)
    \/ \E accountId \in AccountIds, id \in {Absent} \cup AccountIds,
          isPrimary \in PrimaryInputs : PutAccount(accountId, id, isPrimary)
    \/ \E accountId \in AccountIds : DeleteAccount(accountId)

SpecBank == Init /\ [][NextBank]_vars

\* Stock requests handled one after another, on quantities of every kind.
NextStockSequential ==
    \/ \E r \in Movers, op \in StockOps, quantity \in StockQuantities :
           Sequential(r) /\ FindProduct(r, op, quantity)
    \/ \E r \in Movers : SaveProduct(r)

SpecStockSequential == Init /\ [][NextStockSequential]_vars

\* Concurrent stock requests on quantities of whole units.
NextStock ==
    \/ \E r \in Movers, op \in StockOps, quantity \in WholeQuantities :
           FindProduct(r, op, quantity)
    \/ \E r \in Movers : SaveProduct(r)

SpecStock == Init /\ [][NextStock]_vars

\* One create request against a store that other requests change at will.
NextLoop ==
    \/ \E c \in Candidates : GenerateNumber(1, c)
    \/ SaveInvoice(1)
    \/ \E c \in Candidates : StoreInsert(c)
    \/ \E c \in Candidates : StoreDelete(c)

SpecLoop == InitNum /\ [][NextLoop]_vars

(***************************************************************************)
(* Properties.                                                             *)
(***************************************************************************)
Succeeded == last.code \in {200, 201}

AfterCreate == invoice.exists /\ last.op = "create" /\ Succeeded
AfterUpdate == invoice.exists /\ last.op = "update" /\ Succeeded
AfterLineUpdate == AfterUpdate /\ last.shape = "lines"
AfterStatus == invoice.exists /\ last.op = "status" /\ Succeeded

ChargesTotal(d) ==
    d.subtotal + d.totalTaxAmount - d.discountAmount + d.transportCharges
      + d.otherCharges + d.roundingAdjustment

\* C1: all create requests that succeed persist pairwise distinct invoice
\* numbers, and none repeats a number the store already held.
C1_DistinctNumbers ==
    /\ \A i, j \in Requests :
          (i # j /\ req[i].pc = "done" /\ req[j].pc = "done")
             => req[i].invoiceNumber # req[j].invoiceNumber
    /\ \A c \in Candidates : numbers[c] <= 1

\* C2: after every successful create, line-item update or status update the
\* stored invoice has balanceAmount = finalAmount - paidAmount.
C2_BalanceIdentity ==
    (AfterCreate \/ AfterLineUpdate \/ AfterStatus)
       => invoice.balanceAmount = invoice.finalAmount - invoice.paidAmount

\* C3: after every successful create or update the stored finalAmount is
\* subtotal + totalTaxAmount - discountAmount + transportCharges + otherCharges
\* + roundingAdjustment of the stored values.
C3_FinalAmountIdentity ==
    (AfterCreate \/ AfterUpdate) => invoice.finalAmount = ChargesTotal(invoice)

\* C4: in every stored invoice state paymentStatus follows the amounts: paid
\* when the balance is not positive, partial when something is paid and a
\* balance remains, pending when nothing is paid and a balance remains.
C4_PaymentStatusFromAmounts ==
    invoice.exists =>
       /\ invoice.balanceAmount <= 0 => invoice.paymentStatus = "paid"
       /\ (invoice.paidAmount > 0 /\ invoice.balanceAmount > 0)
             => invoice.paymentStatus = "partial"
       /\ (invoice.paidAmount = 0 /\ invoice.balanceAmount > 0)
             => invoice.paymentStatus = "pending"

InterState(d) == d.igst = d.totalTaxAmount /\ d.cgst = 0 /\ d.sgst = 0

C6_BoundedFailSafe ==
    /\ [](\A i \in Requests :
            /\ req[i].attempts <= maxAttempts
            /\ req[i].pc = "failed" <=> req[i].attempts = maxAttempts
            /\ req[i].pc \in {"save", "done"} => req[i].attempts < maxAttempts)
    /\ [][\A i \in Requests :
            /\ (req[i].pc = "loop" /\ req'[i].pc = "save")
                  => numbers[req'[i].invoiceNumber] = 0
            /\ req'[i].pc = "save" => req[i].pc \in {"loop", "save"}
            /\ (req[i].pc = "save" /\ req'[i].pc = "save")
                  => req'[i].invoiceNumber = req[i].invoiceNumber
            /\ (req[i].pc # "done" /\ req'[i].pc = "done")
                  => /\ req[i].pc = "save"
                     /\ numbers' = [numbers EXCEPT ![req[i].invoiceNumber] = @ + 1]
            /\ req[i].pc = "failed" => req'[i] = req[i]]_vars

\* A request that has used up all its attempts and failed.
C6_Witness == req[1].pc = "failed" /\ req[1].attempts = maxAttempts

\* C7: a successful status update to pending leaves status = pending,
\* paidAmount = 0, balanceAmount = finalAmount and paidDate cleared.
C7_MarkPending ==
    (AfterStatus /\ last.status = "pending") =>
       /\ invoice.status = "pending"
       /\ invoice.paidAmount = 0
       /\ invoice.balanceAmount = invoice.finalAmount
       /\ invoice.paidDate = "null"

\* C8: a status update leaves lineItems, subtotal, totalTaxAmount, the
\* discount and charge fields and finalAmount as they were.
C8_StatusKeepsTotals ==
    [][last'.op = "status" =>
          /\ invoice'.lineItems = invoice.lineItems
          /\ invoice'.subtotal = invoice.subtotal
          /\ invoice'.totalTaxAmount = invoice.totalTaxAmount
          /\ invoice'.discountAmount = invoice.discountAmount
          /\ invoice'.transportCharges = invoice.transportCharges
          /\ invoice'.otherCharges = invoice.otherCharges
          /\ invoice'.roundingAdjustment = invoice.roundingAdjustment
          /\ invoice'.finalAmount = invoice.finalAmount]_vars

\* C9: an update with line items stores, per line, the quantity, lineTotal,
\* taxAmount and totalAmount, and as subtotal and totalTaxAmount, what a create
\* with the same line items and the same invoice-level tax rate computes.
C9_UpdateAsCreate ==
    [][\A b \in UpdateBodies :
          (b.hasLines /\ invoice.exists /\ UpdateInvoice(b)) =>
             LET lines == processedLineItems(b.lineItems, BodyTaxRate(b))
             IN  /\ invoice'.lineItems = lines
                 /\ invoice'.subtotal = SumField(lines, "lineTotal")
                 /\ invoice'.totalTaxAmount = SumField(lines, "taxAmount")]_vars

\* C10: an update that carries only transportCharges or otherCharges, and no
\* lineItems, succeeds and stores finalAmount recomputed from the stored line
\* items and the stored charges.
C10_ChargesOnlyUpdate ==
    (invoice.exists /\ last.op = "update" /\ last.shape = "charges") =>
       /\ last.code = 200
       /\ invoice.finalAmount = ChargesTotal(invoice)

\* C16: a create request that fails a precondition persists nothing and is
\* reported by kind: a missing customerId is a validation error naming the
\* customer (checked first), a missing or empty lineItems list is a validation
\* error naming the line items, and a customerId that the tenant does not hold
\* is a not-found (404) response.
C16_CreatePreconditions ==
    [][\A b \in CreateBodies :
          CreateInvoice(b) =>
             /\ b.customer = "missing"
                   => /\ last'.code = 400
                      /\ last'.error = "Customer ID is required"
                      /\ invoice' = invoice
             /\ (b.customer # "missing" /\ (~b.hasLines \/ Len(b.lineItems) = 0))
                   => /\ last'.code = 400
                      /\ last'.error = "Line items are required"
                      /\ invoice' = invoice
             /\ (b.customer = "unknown" /\ b.hasLines /\ Len(b.lineItems) > 0)
                   => /\ last'.code = 404
                      /\ invoice' = invoice]_vars

(***************************************************************************)
(* Properties of the amounts of a create, under SpecAmounts.               *)
(***************************************************************************)
AmountsCreated == invoice.exists /\ last.op = "create" /\ last.code = 201

\* A field the request supplies as a number.
Supplied(x) == x.t \in {"number", "infinite"}

\* The rate the precedence rule gives a line of a body.
ruleTaxRate(item, b) ==
    IF Supplied(item.taxRate) THEN ToNumber(item.taxRate)
    ELSE IF Supplied(item.gstRate) THEN ToNumber(item.gstRate)
    ELSE IF Supplied(b.taxRate) THEN ToNumber(b.taxRate)
    ELSE Fin(DefaultTaxRate)

\* C11: on create the tax rate of a stored line is the rate the line supplies,
\* a supplied 0 included (and then its taxAmount is 0), otherwise the
\* invoice-level rate, otherwise the default 18.
C11_TaxRatePrecedence ==
    AmountsCreated =>
       \A i \in 1..Len(invoice.lineItems) :
          /\ invoice.lineItems[i].taxRate
                = ruleTaxRate(last.body.lineItems[i], last.body)
          /\ last.body.lineItems[i].taxRate = Num(0)
                => invoice.lineItems[i].taxAmount = Fin(0)

\* C12: every stored line of a created invoice whose quantity q and unit price
\* p are numbers at least 0 and whose rate r is within 0..100 has lineTotal =
\* round2(q * p), taxAmount = round2(lineTotal * r / 100) of that rounded
\* lineTotal, and totalAmount = lineTotal + taxAmount.
C12_LineArithmetic ==
    AmountsCreated =>
       \A i \in 1..Len(invoice.lineItems) :
          LET item == last.body.lineItems[i]
              line == invoice.lineItems[i]
          IN  (/\ item.quantity.t = "number" /\ item.quantity.v >= 0
               /\ item.unitPrice.t = "number" /\ item.unitPrice.v >= 0
               /\ isFinite(line.taxRate)
               /\ line.taxRate.v >= 0 /\ line.taxRate.v <= 100)
              => /\ line.lineTotal
                      = Fin(RoundDiv(item.quantity.v * item.unitPrice.v, QuantityUnit))
                 /\ line.taxAmount
                      = Fin(RoundDiv(line.lineTotal.v * line.taxRate.v, 100))
                 /\ line.totalAmount = Plus[line.lineTotal, line.taxAmount]

\* What the safe-number policy stores for a field: its default when the field
\* is absent, null, empty or non-numeric text, its value when it is a number.
policyHolds(stored, value, default) ==
    /\ value.t \in {"undefined", "null", "string", "text"} => stored = Fin(default)
    /\ value.t = "number" => stored = Fin(value.v)

\* C13: a created invoice stores, for every quantity, unit price and charge
\* of the request, the default (one whole quantity, price 0, charge 0) when
\* the field is absent, null, empty or non-numeric text, and the number
\* itself, 0 included, when the field is a number.
C13_SafeNumberPolicy ==
    AmountsCreated =>
       /\ \A i \in 1..Len(invoice.lineItems) :
             /\ policyHolds(invoice.lineItems[i].quantity,
                            last.body.lineItems[i].quantity,
                            DefaultQuantity * QuantityUnit)
             /\ policyHolds(invoice.lineItems[i].unitPrice,
                            last.body.lineItems[i].unitPrice, 0)
       /\ policyHolds(invoice.discountAmount, last.body.discountAmount, 0)
       /\ policyHolds(invoice.transportCharges, last.body.transportCharges, 0)
       /\ policyHolds(invoice.otherCharges, last.body.otherCharges, 0)
       /\ policyHolds(invoice.roundingAdjustment, last.body.roundingAdjustment, 0)

\* A created invoice with a line of non-numeric quantity, a line of quantity
\* 0, and charges that are null, empty and non-numeric.
C13_Witness ==
    /\ AmountsCreated
    /\ \E i \in 1..Len(invoice.lineItems) :
          /\ last.body.lineItems[i].quantity = Text
          /\ invoice.lineItems[i].quantity = Fin(DefaultQuantity * QuantityUnit)
    /\ \E i \in 1..Len(invoice.lineItems) :
          /\ last.body.lineItems[i].quantity = Num(0)
          /\ invoice.lineItems[i].quantity = Fin(0)
    /\ last.body.discountAmount = Null
    /\ last.body.otherCharges = Text
    /\ invoice.otherCharges = Fin(0)

\* C14: every monetary field of a stored invoice is a finite number.
C14_FiniteAmounts ==
    invoice.exists =>
       /\ \A i \in 1..Len(invoice.lineItems) :
             /\ isFinite(invoice.lineItems[i].lineTotal)
             /\ isFinite(invoice.lineItems[i].taxAmount)
             /\ isFinite(invoice.lineItems[i].totalAmount)
       /\ isFinite(invoice.subtotal)
       /\ isFinite(invoice.totalTaxAmount)
       /\ isFinite(invoice.finalAmount)
       /\ isFinite(invoice.balanceAmount)

\* C15: a create request with a line item that has no quantity or no unitPrice
\* at all is rejected with a validation failure and stores nothing.
C15_StrictValidation ==
    (/\ last.op = "create"
     /\ \E i \in 1..Len(last.body.lineItems) :
           \/ last.body.lineItems[i].quantity = Undefined
           \/ last.body.lineItems[i].unitPrice = Undefined)
    => /\ last.code = 400
       /\ ~invoice.exists


(***************************************************************************)
(* Properties of the descriptive part of an invoice, under SpecSnapshot.   *)
(***************************************************************************)
\* C17: GET /invoices/:id returns the customer name and the billing address
\* as the invoice stores them, in the flat fields and in the customerInfo
\* mirror alike, whatever the customer record has become since.
C17_SnapshotFrozen ==
    (last.op = "get" /\ last.code = 200)
        => /\ last.invoice.customerName = invoice.customerName
           /\ last.invoice.billingCity = invoice.billingCity
           /\ last.invoice.customerInfo.name = invoice.customerInfo.name
           /\ last.invoice.customerInfo.billingAddress
                  = invoice.customerInfo.billingAddress

SucceededIn(ops) == last.op \in ops /\ last.code \in {200, 201} /\ invoice.exists

\* C18: after every successful create, update or status operation the
\* customerInfo mirror of the stored invoice equals its flat customer fields.
C18_MirrorInSync ==
    SucceededIn({"create", "update", "status"})
        => /\ invoice.customerInfo.name = invoice.customerName
           /\ invoice.customerInfo.billingAddress.city = invoice.billingCity

\* C19: after any successful create or update the invoiceType of the stored
\* invoice is one of its tags.
C19_TypeInTags ==
    SucceededIn({"create", "update"}) => invoice.invoiceType \in invoice.tags

\* The invoice of a tenant other than the one whose request is answered.
ForeignInvoice(d, t) == d.exists /\ d.ownerId # t

\* C20: a request of one tenant leaves the invoices of every other tenant as
\* they were, adds none to them, and returns none of them.
C20_TenantIsolation ==
    [][ /\ ForeignInvoice(invoice, last'.tenant) => invoice' = invoice
        /\ ForeignInvoice(invoice', last'.tenant) => invoice' = invoice
        /\ (last'.op = "get" /\ last'.code = 200)
               => last'.invoice.ownerId = last'.tenant ]_vars


(***************************************************************************)
(* Properties of getNextSequence, under SpecCounter.                       *)
(***************************************************************************)
Returned(name) == {c \in Callers : calls[c].pc = "returned" /\ calls[c].name = name}

\* C21: under any interleaving of concurrent calls, the calls completed on a
\* key have returned distinct values, exactly 1..n for n completed calls on
\* a key unused before, and the stored seq of the key is n; a key no call
\* has completed on has no counter.
C21_AtomicIncrement ==
    \A name \in CounterKeys :
        /\ \A c, d \in Returned(name) : c # d => calls[c].result # calls[d].result
        /\ {calls[c].result : c \in Returned(name)} = 1..Cardinality(Returned(name))
        /\ counters[name].seq = Cardinality(Returned(name))
        /\ counters[name].exists = (Returned(name) # {})

\* Every call has completed on the same key, one key is untouched.
C21_Witness ==
    /\ Cardinality(Returned("invoice")) = NumCalls
    /\ counters["invoice"].seq = NumCalls
    /\ counters["item"] = NoCounter


(***************************************************************************)
(* Properties of the item-code and part-number sequences, under            *)
(* SpecSettings.                                                           *)
(***************************************************************************)
Saved(kind) == {r \in Loaders : loads[r].pc = "saved" /\ loads[r].kind = kind}

\* C22: under any interleaving, the requests that have taken an item code
\* (or a part number) and saved hold distinct codes, and the stored next
\* sequence has advanced by one for each of them.
C22_AtomicItemSequences ==
    /\ \A kind \in SequenceKinds : \A r, q \in Saved(kind) :
           r # q => loads[r].code # loads[q].code
    /\ settings.nextItemCodeSequence
           = DefaultItemSettings.nextItemCodeSequence + Cardinality(Saved("itemCode"))
    /\ settings.nextPartNumberSequence
           = DefaultItemSettings.nextPartNumberSequence + Cardinality(Saved("partNumber"))


(***************************************************************************)
(* Properties of the status of an invoice, under Spec.                     *)
(***************************************************************************)
StatusAnswered(status) ==
    last.op = "status" /\ last.code = 200 /\ last.status = status

\* C23: after a successful status update to cancelled the stored invoice has
\* status = cancelled and paymentStatus = cancelled, whatever it had paid.
C23_CancelledStays ==
    StatusAnswered("cancelled")
        => invoice.status = "cancelled" /\ invoice.paymentStatus = "cancelled"

\* C24: after a successful status update to paid, following any creates and
\* updates, the stored invoice has paidAmount = finalAmount,
\* balanceAmount = 0, status = paid and paymentStatus = paid.
C24_PaidSettles ==
    StatusAnswered("paid")
        => /\ invoice.paidAmount = invoice.finalAmount
           /\ invoice.balanceAmount = 0
           /\ invoice.status = "paid"
           /\ invoice.paymentStatus = "paid"

\* C25: every newly created invoice is stored with status = pending,
\* paymentStatus = pending and paidAmount = 0, a final amount of zero or
\* less included.
C25_CreatedPending ==
    (last.op = "create" /\ last.code = 201)
        => /\ invoice.status = "pending"
           /\ invoice.paymentStatus = "pending"
           /\ invoice.paidAmount = 0


(***************************************************************************)
(* Properties of login and forced logout, under SpecAuth.                  *)
(***************************************************************************)
\* A login has succeeded since the last forced logout.
LoggedInAgain == \E k \in TokenIds : tokens[k] = "issued"

\* C26: once a logout has been forced, every request to a protected route
\* with a token issued before it is rejected, until a new login succeeds.
C26_ForcedLogoutRejects ==
    [][\A k \in TokenIds :
          (requireAuth(k) /\ tokens[k] = "outdated" /\ ~LoggedInAgain)
              => last'.code = 401]_vars

\* C27: a login with valid credentials on an active account with forceLogout
\* set is answered 401 with forceLogout true, issues no token and clears the
\* flag; with the flag clear it succeeds and issues a token; a login with a
\* wrong password or on an account that is not active leaves the flag as it
\* is and issues no token.
C27_LoginAfterForcedLogout ==
    [][/\ (Login("valid") /\ owner.status = "active" /\ owner.forceLogout)
           => /\ last'.code = 401 /\ last'.forceLogout
              /\ tokens' = tokens
              /\ ~owner'.forceLogout
       /\ (Login("valid") /\ owner.status = "active" /\ ~owner.forceLogout)
           => /\ last'.code = 200
              /\ last'.token \in TokenIds /\ tokens[last'.token] = "unissued"
              /\ tokens'[last'.token] = "issued"
       /\ (Login("wrongPassword") \/ (Login("valid") /\ owner.status # "active"))
           => /\ last'.code = 401 /\ ~last'.forceLogout
              /\ tokens' = tokens
              /\ owner' = owner]_vars

\* A login has succeeded after a forced logout: the flag was set, a valid
\* login was rejected and cleared it, and the next one was issued a token.
C27_Witness ==
    /\ last.op = "login" /\ last.code = 200
    /\ \E k \in TokenIds : tokens[k] = "outdated"
    /\ ~owner.forceLogout


(***************************************************************************)
(* Properties of the bank accounts, under SpecBank.                        *)
(***************************************************************************)
Primaries(accounts) == {i \in 1..Len(accounts) : accounts[i].isPrimary}

MainAccounts(accounts) == {i \in 1..Len(accounts) : accounts[i].id = primaryAccountId}

\* C28: after every bank-detail request the stored bankAccounts list has at
\* most one primary account, and a delete request removes no account whose
\* id is 'primary-main'.
C28_OnePrimary ==
    [][/\ Cardinality(Primaries(bank'.bankAccounts)) <= 1
       /\ last'.op = "deleteAccount"
            => Cardinality(MainAccounts(bank'.bankAccounts))
                 = Cardinality(MainAccounts(bank.bankAccounts))]_vars

\* The delete of the main account has been refused while another account,
\* made primary after it, is the one primary account.
C28_Witness ==
    /\ last.op = "deleteAccount" /\ last.code = 400
    /\ Len(bank.bankAccounts) >= 2
    /\ Cardinality(Primaries(bank.bankAccounts)) = 1
    /\ \A i \in MainAccounts(bank.bankAccounts) : ~bank.bankAccounts[i].isPrimary


(***************************************************************************)
(* Properties of the stock of a product, under SpecStockSequential and     *)
(* SpecStock.                                                              *)
(***************************************************************************)
Accepted(op) == {r \in Movers : moves[r].op = op /\ moves[r].code = 200}

RECURSIVE SumQuantity(_)
SumQuantity(rs) ==
    IF rs = {} THEN 0
    ELSE LET r == CHOOSE x \in rs : TRUE
         IN  moves[r].quantity.v + SumQuantity(rs \ {r})

\* The stock the accepted requests account for.
Accounted == InitialStock + SumQuantity(Accepted("add")) - SumQuantity(Accepted("remove"))

InFlight == \E r \in Movers : moves[r].pc = "found"

\* C29: with the requests handled one after another, a removal of more
\* than the stock, or of a missing or not positive quantity, is rejected and
\* leaves stockQuantity as it is, and stockQuantity is never negative and is
\* the initial stock plus the accepted additions minus the accepted
\* removals.
C29_GuardedRemoval ==
    /\ stock >= 0
    /\ ~InFlight => stock = Accounted
    /\ \A r \in Movers :
          (/\ moves[r].pc = "done" /\ moves[r].op = "remove"
           /\ (invalidQuantity(moves[r].quantity)
                 \/ insufficient(moves[r].product, moves[r].quantity)))
              => moves[r].code = 400

\* C30: under any interleaving of concurrent add and remove requests, once
\* they have all been answered stockQuantity is the initial stock plus the
\* accepted additions minus the accepted removals, and no more has been
\* removed than was available.
C30_NoLostStockUpdate ==
    (\A r \in Movers : moves[r].pc = "done")
        => /\ stock = Accounted
           /\ SumQuantity(Accepted("remove"))
                 <= InitialStock + SumQuantity(Accepted("add"))

====
